---- MODULE Spec2Model ----
(***************************************************************************)
(* foxterm: the terminal emulation engine of src/src/terminal/mod.rs and   *)
(* the render loop of src/src/renderer.rs.                                  *)
(*                                                                         *)
(* Positions are f32 in normalized device space.  They are modelled as     *)
(* fixed-point integers: the value v stands for v / One.  Sums, differences *)
(* and products by whole numbers are exact; the one product of two          *)
(* non-integers (update_y's dif) is rounded to the nearest unit.            *)
(***************************************************************************)
EXTENDS Integers, Sequences, FiniteSets, TLC

\* ---------------------------------------------------------------- numbers
\* The literal 1.0 of update_x / update_y, in fixed-point units.
One == 8

\* font.scale, the cell pitch (0.5 in fixed-point units of 1/8).
Scale == 4

\* self.font.scale / 2.0
Half == Scale \div 2

\* f32::ceil of the rational a / b (b > 0), as a whole number.
Ceil(a, b) == -((-a) \div b)

\* a / b rounded to the nearest unit (b > 0).
Round(a, b) == (2 * a + b) \div (2 * b)

\* ---------------------------------------------------------------- bytes
BS == 8
SP == 32
ESC == 27
LBracket == 91
Digit9 == 57
ChrK == 75
ChrC == 67
ChrA == 97
ChrI == 105

\* The bytes Pty.read can deliver in the model.
Bytes == {BS, SP, ESC, LBracket, Digit9, ChrK, ChrC, ChrA, ChrI}

\* ---------------------------------------------------------------- bounds
MaxScreen == 2

\* ---------------------------------------------------------------- font
\* LoadedFont::get_chr_by_id: the glyphs of the font, with bearing and
\* dimensions.x in fixed-point units.  'a' carries the proportions of the
\* font's usual glyph (bearing.y = pitch / 2), 'i' is a thin glyph without
\* bearing.  Every other byte has no glyph.
HasChr(c) == c \in {ChrA, ChrI}

get_chr_by_id(c) ==
    IF c = ChrA THEN [id |-> ChrA, bx |-> 1, by |-> 2, w |-> 3]
    ELSE [id |-> ChrI, bx |-> 0, by |-> 0, w |-> 2]

\* ---------------------------------------------------------------- normalization
Vec(x, y) == [x |-> x, y |-> y]

PS(p, s) == [pos |-> p, screen |-> s]

\* update_x without the half-pitch term of the wrapped x.
update_x_NoHalf(pos) ==
    IF pos.x > One - Half
    THEN Vec(-2 * One + pos.x, pos.y + Scale * Ceil(pos.x, 2 * One))
    ELSE IF pos.x < -One
    THEN Vec(2 * One + pos.x - Half, pos.y - Scale * Ceil(-pos.x, 2 * One))
    ELSE pos

update_x(pos) ==
    IF pos.x > One - Half
    THEN Vec(-2 * One + pos.x + Half, pos.y + Scale * Ceil(pos.x, 2 * One))
    ELSE IF pos.x < -One
    THEN Vec(2 * One + pos.x - Half, pos.y - Scale * Ceil(-pos.x, 2 * One))
    ELSE pos

\* dif = scale * (pos.y / (1.0 - scale).ceil())
ScrollDif(y) == Round(Scale * y, Ceil(One - Scale, One) * One)

\* retain_mut's predicate with >= for >.
Retained_Geq(d) == d.y >= -One

\* retain_mut's predicate, evaluated on the shifted Drawable.
Retained(d) == d.y > -One

Shift(d, dif) == [d EXCEPT !.y = d.y - dif]

RECURSIVE RetainShift(_, _)
RetainShift(s, dif) ==
    IF s = <<>> THEN <<>>
    ELSE LET d == Shift(Head(s), dif)
             rest == RetainShift(Tail(s), dif)
         IN IF Retained(d) THEN <<d>> \o rest ELSE rest

update_y(pos, screen) ==
    IF pos.y > One - Scale
    THEN LET dif == ScrollDif(pos.y)
         IN PS(Vec(pos.x, pos.y - dif), RetainShift(screen, dif))
    ELSE PS(pos, screen)

update_pos(pos, screen) == update_y(update_x(pos), screen)

\* ---------------------------------------------------------------- Performer
Drawable(item, p) == [item |-> item, x |-> p.x, y |-> p.y]

\* The pen and the screen as add_chr hands them to update_pos.
add_chr_pre(pos, screen, chr) ==
    LET x1 == pos.x + chr.bx
    IN PS(Vec(x1 + chr.w, pos.y),
          Append(screen, Drawable(chr.id, Vec(x1, pos.y - chr.by))))

add_chr(pos, screen, chr) ==
    LET pre == add_chr_pre(pos, screen, chr)
    IN update_pos(pre.pos, pre.screen)

add_space_pre(pos, screen) ==
    PS(Vec(pos.x + Half, pos.y), Append(screen, Drawable(SP, pos)))

add_space(pos, screen) ==
    LET pre == add_space_pre(pos, screen)
    IN update_pos(pre.pos, pre.screen)

\* A scan that passes over a Drawable at the target's own x.
BsMatches_Strict(screen, min_pos) ==
    {i \in 1..Len(screen) : screen[i].y = min_pos.y /\ screen[i].x > min_pos.x}

\* The indexes the backspace scan accepts.
BsMatches(screen, min_pos) ==
    {i \in 1..Len(screen) : screen[i].y = min_pos.y /\ screen[i].x >= min_pos.x}

Min(S) == CHOOSE m \in S : \A n \in S : m <= n

RemoveAt(s, i) == SubSeq(s, 1, i - 1) \o SubSeq(s, i + 1, Len(s))

\* advance_parser, u == 8: the pen and the screen as the scan leaves them,
\* before the final update_pos.
backspace_pre(pos, screen) ==
    LET m == update_pos(Vec(pos.x - Half, pos.y), screen)
        hits == BsMatches(m.screen, m.pos)
    IN IF hits = {}
       THEN PS(pos, m.screen)
       ELSE LET i == Min(hits)
            IN PS(Vec(m.screen[i].x, m.screen[i].y), RemoveAt(m.screen, i))

backspace(pos, screen) ==
    LET pre == backspace_pre(pos, screen)
    IN update_pos(pre.pos, pre.screen)

\* advance_parser, u == b' '
space(pos, screen) ==
    LET a == add_space(pos, screen)
    IN update_pos(a.pos, a.screen)

\* Perform::print
print(pos, screen, c) ==
    IF HasChr(c) THEN add_chr(pos, screen, get_chr_by_id(c)) ELSE PS(pos, screen)

\* The pen as csi_dispatch hands it to update_pos; n is the first parameter
\* (0 when the sequence carries none).
EraseLineX == One + Half

csi_pre(pos, action, n) ==
    IF action = ChrK
    THEN IF n = 0 THEN Vec(EraseLineX, pos.y) ELSE pos
    ELSE IF action = ChrC
    THEN IF n = 0 THEN Vec(pos.x + Half, pos.y) ELSE Vec(pos.x + Half * n, pos.y)
    ELSE pos

\* Perform::csi_dispatch
csi_dispatch(pos, screen, action, n) == update_pos(csi_pre(pos, action, n), screen)

\* ---------------------------------------------------------------- vte::Parser
\* The decoder's state: Ground, Escape or Csi (CsiEntry / CsiParam), and the
\* first parameter collected so far.
NewParser == [state |-> "Ground", param |-> 0]

IsDigit(u) == u = Digit9

\* vte's parameter accumulation (u16, saturating).
ParamMax == 65535

PushDigit(param, u) ==
    LET v == param * 10 + (u - 48)
    IN IF v > ParamMax THEN ParamMax ELSE v

\* parser.advance(self, u): the decoder's next state and the event it
\* delivers to the Performer.
Advance(p, pos, screen, u) ==
    IF u = ESC
    THEN [parser |-> [state |-> "Escape", param |-> 0], ps |-> PS(pos, screen)]
    ELSE IF p.state = "Ground"
    THEN [parser |-> p, ps |-> print(pos, screen, u)]
    ELSE IF p.state = "Escape"
    THEN IF u = LBracket
         THEN [parser |-> [state |-> "Csi", param |-> 0], ps |-> PS(pos, screen)]
         ELSE [parser |-> NewParser, ps |-> PS(pos, screen)]
    ELSE IF IsDigit(u)
    THEN [parser |-> [p EXCEPT !.param = PushDigit(p.param, u)], ps |-> PS(pos, screen)]
    ELSE [parser |-> NewParser, ps |-> csi_dispatch(pos, screen, u, p.param)]

\* Performer::advance_parser
advance_parser(p, pos, screen, u) ==
    IF u = BS THEN [parser |-> p, ps |-> backspace(pos, screen)]
    ELSE IF u = SP THEN [parser |-> p, ps |-> space(pos, screen)]
    ELSE Advance(p, pos, screen, u)

\* The `for u in buf` loop, from the decoder state p.
RECURSIVE Feed(_, _, _)
Feed(p, ps, buf) ==
    IF buf = <<>> THEN [parser |-> p, ps |-> ps]
    ELSE LET r == advance_parser(p, ps.pos, ps.screen, Head(buf))
         IN Feed(r.parser, r.ps, Tail(buf))

\* One iteration of the reader thread's loop with pty.read() = Ok(buf): a new
\* Parser, then every byte of buf.
read_chunk(ps, buf) == Feed(NewParser, ps, buf).ps

\* ---------------------------------------------------------------- f32
\* The same functions on f32 values that are not dyadic.  Here the value v
\* stands for v / OneF, and every f32 between -2.0 and 2.0 that the functions
\* below produce is a whole number of units: the operands are, and a sum or a
\* difference of two of them is rounded to 24 significant bits.
OneF == 536870912

\* font.scale = 0.5 and font.scale / 2.0, both exact in f32.
ScaleF == OneF \div 2

HalfF == ScaleF \div 2

\* 2^24: an f32 carries 24 significant bits.
Mantissa == 16777216

\* The spacing of the f32 values around the magnitude m.
RECURSIVE Quantum(_)
Quantum(m) == IF m < Mantissa THEN 1 ELSE 2 * Quantum(m \div 2)

\* The f32 nearest to n, ties to the even significand: the result of an f32
\* addition or subtraction whose exact result is n.
F32(n) ==
    LET m == IF n < 0 THEN -n ELSE n
        q == Quantum(m)
        r == m % q
        lo == m - r
        up == IF 2 * r > q \/ (2 * r = q /\ (lo \div q) % 2 = 1) THEN lo + q ELSE lo
    IN IF n < 0 THEN -up ELSE up

\* The glyph of 'a': bearing (0.05, 0.25) and dimensions.x 0.4 as f32, the
\* proportions of a glyph of bearing (0.01, 0.05) and width 0.08 at pitch 0.1.
get_chr_by_id_F(c) == [id |-> ChrA, bx |-> 26843546, by |-> OneF \div 4, w |-> 214748368]

HasChrF(c) == c = ChrA

update_xF(pos) ==
    IF pos.x > OneF - HalfF
    THEN Vec(F32(F32(-2 * OneF + pos.x) + HalfF),
             F32(pos.y + ScaleF * Ceil(pos.x, 2 * OneF)))
    ELSE IF pos.x < -OneF
    THEN Vec(F32(F32(2 * OneF + pos.x) - HalfF),
             F32(pos.y - ScaleF * Ceil(-pos.x, 2 * OneF)))
    ELSE pos

\* dif = scale * (pos.y / (1.0 - scale).ceil()): the divisor is 1.0 and the
\* product by scale = 0.5 halves pos.y, exactly.
ScrollDifF(y) == y \div (OneF \div ScaleF)

ShiftF(d, dif) == [d EXCEPT !.y = F32(d.y - dif)]

RECURSIVE RetainShiftF(_, _)
RetainShiftF(s, dif) ==
    IF s = <<>> THEN <<>>
    ELSE LET d == ShiftF(Head(s), dif)
             rest == RetainShiftF(Tail(s), dif)
         IN IF d.y > -OneF THEN <<d>> \o rest ELSE rest

update_yF(pos, screen) ==
    IF pos.y > OneF - ScaleF
    THEN LET dif == ScrollDifF(pos.y)
         IN PS(Vec(pos.x, F32(pos.y - dif)), RetainShiftF(screen, dif))
    ELSE PS(pos, screen)

update_posF(pos, screen) == update_yF(update_xF(pos), screen)

add_chrF(pos, screen, chr) ==
    LET x1 == F32(pos.x + chr.bx)
    IN update_posF(Vec(F32(x1 + chr.w), pos.y),
                   Append(screen, Drawable(chr.id, Vec(x1, F32(pos.y - chr.by)))))

add_spaceF(pos, screen) ==
    update_posF(Vec(F32(pos.x + HalfF), pos.y), Append(screen, Drawable(SP, pos)))

\* advance_parser, u == 8
backspaceF(pos, screen) ==
    LET m == update_posF(Vec(F32(pos.x - HalfF), pos.y), screen)
        hits == BsMatches(m.screen, m.pos)
        pre == IF hits = {}
               THEN PS(pos, m.screen)
               ELSE LET i == Min(hits)
                    IN PS(Vec(m.screen[i].x, m.screen[i].y), RemoveAt(m.screen, i))
    IN update_posF(pre.pos, pre.screen)

\* advance_parser, u == b' '
spaceF(pos, screen) ==
    LET a == add_spaceF(pos, screen)
    IN update_posF(a.pos, a.screen)

\* Perform::print
printF(pos, screen, c) ==
    IF HasChrF(c) THEN add_chrF(pos, screen, get_chr_by_id_F(c)) ELSE PS(pos, screen)

\* Performer::advance_parser on the bytes of BytesF: none of them is ESC, so
\* the decoder stays in Ground and parser.advance delivers a print.
advance_parserF(pos, screen, u) ==
    IF u = BS THEN backspaceF(pos, screen)
    ELSE IF u = SP THEN spaceF(pos, screen)
    ELSE printF(pos, screen, u)

\* The bytes Pty.read delivers to the f32 interpreter.
BytesF == {BS, SP, ChrA}

\* ---------------------------------------------------------------- input
CR == 13
TAB == 9
Caret == 94
ChrL == 108
ChrS == 115

\* winit_input_helper's TextChar: a typed character, or the Back key.
Char(c) == [back |-> FALSE, c |-> c]

Back == [back |-> TRUE, c |-> 0]

\* The closure of update_pty's map: `c as u8` keeps the low byte of the
\* character, Back becomes byte 8.
text_byte(t) == IF t.back THEN BS ELSE t.c % 256

\* An update_pty that looks at the Tab key before the Return key.
update_pty_TabFirst(typed, ret, tab, lctrl, rctrl) ==
    LET text == [i \in 1..Len(typed) |-> text_byte(typed[i])]
    IN IF tab THEN Append(text, TAB)
       ELSE IF ret THEN Append(text, CR)
       ELSE IF lctrl \/ rctrl THEN Append(text, Caret)
       ELSE text

\* Terminal::update_pty: the bytes one polling tick submits.  typed is
\* input.text(); ret, tab, lctrl and rctrl are key_pressed(Return),
\* key_pressed(Tab), key_pressed(LControl) and key_pressed(RControl).
update_pty(typed, ret, tab, lctrl, rctrl) ==
    LET text == [i \in 1..Len(typed) |-> text_byte(typed[i])]
    IN IF ret THEN Append(text, CR)
       ELSE IF tab THEN Append(text, TAB)
       ELSE IF lctrl \/ rctrl THEN Append(text, Caret)
       ELSE text

\* What the input helper reports in one tick, in the model.
Inputs ==
    { [typed |-> <<Char(ChrL), Char(ChrS)>>, ret |-> FALSE, tab |-> FALSE,
       lctrl |-> FALSE, rctrl |-> FALSE],
      [typed |-> <<>>, ret |-> TRUE, tab |-> TRUE, lctrl |-> TRUE, rctrl |-> FALSE],
      [typed |-> <<Back>>, ret |-> FALSE, tab |-> TRUE, lctrl |-> FALSE, rctrl |-> TRUE] }

\* ---------------------------------------------------------------- locks
\* RwLock<Performer>: "free", "write" (the reader thread) or "read" (a frame).
CanWrite(lock) == lock = "free"

\* A read lock that does not wait for the writer.
CanRead_NoWait(lock) == TRUE

CanRead(lock) == lock # "write"

\* A channel that hands out the newest message first.
Dequeue_Lifo(q) == [content |-> q[Len(q)], rest |-> SubSeq(q, 1, Len(q) - 1)]

\* crossbeam's unbounded channel: recv() takes the oldest message.
Dequeue(q) == [content |-> Head(q), rest |-> Tail(q)]

\* ---------------------------------------------------------------- state
VARIABLES
    pos,        \* Performer.pos, the pen
    screen,     \* Terminal.screen, the Vec<Drawable>
    parser,     \* the vte::Parser of the chunk in progress
    reader,     \* the reader thread: "read", "wait", "proc", "done"
    log,        \* the error lines printed so far
    plock,      \* the RwLock around the Performer
    slock,      \* the RwLock around the screen
    frame,      \* the event loop: "idle", "tick", "locked", "drawn", "cursor", "panic", "exit"
    snap,       \* what the frame in progress has read: the Drawables, the cursor
    queue,      \* the channel between update_pty and the writer thread
    sent,       \* every submission accepted by the channel, in order
    writer,     \* the writer thread: "recv", "write", "done"
    content,    \* the message the writer thread holds
    calls,      \* every pty.write call, in order, with its outcome
    fuel        \* <<n>>: the model lets pty.read deliver n more bytes; <<>>: no limit

vars == <<pos, screen, parser, reader, log, plock, slock, frame, snap,
          queue, sent, writer, content, calls, fuel>>

termVars == <<pos, screen, parser>>
readerVars == <<reader>>
frameVars == <<frame, snap, slock>>
writerVars == <<writer, content, calls>>

NoSnap == [screen |-> <<>>, pos |-> Vec(0, 0), state |-> "none"]

MaxBytes == 3
MaxTicks == 2

InitCommon ==
    /\ pos = Vec(-One, -One)
    /\ screen = <<>>
    /\ parser = NewParser
    /\ reader = "read"
    /\ log = {}
    /\ plock = "free"
    /\ slock = "free"
    /\ frame = "idle"
    /\ snap = NoSnap
    /\ queue = <<>>
    /\ sent = <<>>
    /\ writer = "recv"
    /\ content = <<>>
    /\ calls = <<>>

Init == InitCommon /\ fuel = <<MaxBytes>>

InitInterp == InitCommon /\ fuel = <<>>

\* A byte that appends a Drawable is fed only while the model's screen has room.
Appends(p, u) == u = SP \/ (u # BS /\ u # ESC /\ p.state = "Ground" /\ HasChr(u))

\* A digit is fed only while the parameter stays within the model's bound.
MaxParam == 9

\* A cursor-forward is fed only from a pen whose x is within the screen, which
\* keeps the pen from drifting right without bound.
Fits(p, u) ==
    /\ Appends(p, u) => Len(screen) < MaxScreen
    /\ (p.state = "Csi" /\ IsDigit(u)) => PushDigit(p.param, u) <= MaxParam
    /\ (p.state = "Csi" /\ u = ChrC) => pos.x <= One - Half

\* The bytes whose handling takes self.screen.write(): backspace, space, a
\* print with a glyph (add_chr) and every csi_dispatch.
NeedsScreen(p, u) ==
    \/ u = BS
    \/ u = SP
    \/ u # ESC /\ p.state = "Ground" /\ HasChr(u)
    \/ u # ESC /\ p.state = "Csi" /\ ~IsDigit(u)

\* pty.read() may deliver a byte while the model's budget lasts.
HasFuel == IF fuel = <<>> THEN TRUE ELSE fuel[1] > 0

Burn == IF fuel = <<>> THEN fuel ELSE <<fuel[1] - 1>>

\* ---------------------------------------------------------------- reader thread
\* pty.read() returns Ok(buf).  The length and the bytes of buf are the
\* environment's choice; ReaderByte draws them one at a time.
ReadChunk ==
    /\ reader = "read"
    /\ HasFuel
    /\ reader' = "wait"
    /\ UNCHANGED <<termVars, log, plock, frameVars, queue, sent, writerVars, fuel>>

\* Parser::new(); performer.write()
ReaderLock ==
    /\ reader = "wait"
    /\ CanWrite(plock)
    /\ plock' = "write"
    /\ reader' = "proc"
    /\ parser' = NewParser
    /\ UNCHANGED <<pos, screen, log, frameVars, queue, sent, writerVars, fuel>>

\* One iteration of `for u in buf`.
ReaderByte ==
    /\ reader = "proc"
    /\ HasFuel
    /\ \E u \in Bytes :
        /\ Fits(parser, u)
        /\ NeedsScreen(parser, u) => CanWrite(slock)
        /\ LET r == advance_parser(parser, pos, screen, u)
           IN /\ parser' = r.parser
              /\ pos' = r.ps.pos
              /\ screen' = r.ps.screen
    /\ fuel' = Burn
    /\ UNCHANGED <<reader, log, plock, frameVars, queue, sent, writerVars>>

\* A reader thread that keeps the write guard across pty.read().
ReaderUnlock_Keeps ==
    /\ reader = "proc"
    /\ reader' = "read"
    /\ parser' = NewParser
    /\ UNCHANGED <<pos, screen, log, plock, frameVars, queue, sent, writerVars, fuel>>

\* End of the Ok(buf) arm, every byte of buf fed: the write guard and the
\* parser are dropped.
ReaderUnlock ==
    /\ reader = "proc"
    /\ reader' = "read"
    /\ plock' = "free"
    /\ parser' = NewParser
    /\ UNCHANGED <<pos, screen, log, frameVars, queue, sent, writerVars, fuel>>

\* A reader thread that reports the closed condition like any other error.
ReadClosed_Logs ==
    /\ reader = "read"
    /\ reader' = "done"
    /\ log' = log \cup {"Error on read"}
    /\ UNCHANGED <<termVars, plock, frameVars, queue, sent, writerVars, fuel>>

\* pty.read() fails with EBADF.
ReadClosed ==
    /\ reader = "read"
    /\ reader' = "done"
    /\ UNCHANGED <<termVars, log, plock, frameVars, queue, sent, writerVars, fuel>>

\* pty.read() fails with any other error.
ReadError ==
    /\ reader = "read"
    /\ log' = log \cup {"Error on read"}
    /\ UNCHANGED <<termVars, readerVars, plock, frameVars, queue, sent, writerVars, fuel>>

\* ---------------------------------------------------------------- event loop
\* RedrawEventsCleared: terminal.update_pty(&write_sndr, &input).unwrap()
Tick ==
    /\ frame = "idle"
    /\ Len(sent) < MaxTicks
    /\ \E in \in Inputs :
        LET text == update_pty(in.typed, in.ret, in.tab, in.lctrl, in.rctrl)
        IN IF writer = "done"
           THEN /\ frame' = "panic"
                /\ UNCHANGED <<queue, sent>>
           ELSE /\ frame' = "tick"
                /\ queue' = Append(queue, text)
                /\ sent' = Append(sent, text)
    /\ UNCHANGED <<termVars, readerVars, log, plock, slock, snap, writerVars, fuel>>

\* WindowEvent::CloseRequested: ControlFlow::Exit.  The event loop ends and
\* drops its closure, and with it write_sndr, the channel's only Sender.
WindowClose ==
    /\ frame = "idle"
    /\ frame' = "exit"
    /\ UNCHANGED <<termVars, readerVars, log, plock, slock, snap, queue, sent, writerVars, fuel>>

\* The handler returns before drawing (swapchain out of date).
FrameSkip ==
    /\ frame = "tick"
    /\ frame' = "idle"
    /\ UNCHANGED <<termVars, readerVars, log, plock, slock, snap, queue, sent, writerVars, fuel>>

\* performer.read()
FrameLock ==
    /\ frame = "tick"
    /\ CanRead(plock)
    /\ plock' = IF plock = "free" THEN "read" ELSE plock
    /\ frame' = "locked"
    /\ UNCHANGED <<termVars, readerVars, log, slock, snap, queue, sent, writerVars, fuel>>

\* draw_terminal: terminal.screen.read() and the loop over the Drawables,
\* which holds the screen's read lock.
FrameDraw ==
    /\ frame = "locked"
    /\ CanRead(slock)
    /\ slock' = "read"
    /\ snap' = [screen |-> screen, pos |-> Vec(0, 0), state |-> "drawn"]
    /\ frame' = "drawn"
    /\ UNCHANGED <<termVars, readerVars, log, plock, queue, sent, writerVars, fuel>>

\* draw_terminal: the loop ends and drops the screen's read lock; the cursor
\* at performer.pos
FrameCursor ==
    /\ frame = "drawn"
    /\ slock' = "free"
    /\ snap' = [snap EXCEPT !.pos = pos, !.state = "cursor"]
    /\ frame' = "cursor"
    /\ UNCHANGED <<termVars, readerVars, log, plock, queue, sent, writerVars, fuel>>

\* The read guard is dropped at the end of the draw_terminal statement.
FrameUnlock ==
    /\ frame = "cursor"
    /\ plock' = IF plock = "read" THEN "free" ELSE plock
    /\ snap' = NoSnap
    /\ frame' = "idle"
    /\ UNCHANGED <<termVars, readerVars, log, slock, queue, sent, writerVars, fuel>>

\* ---------------------------------------------------------------- writer thread
\* receiver.recv() returns Ok(content)
WriterRecv ==
    /\ writer = "recv"
    /\ queue # <<>>
    /\ LET m == Dequeue(queue)
       IN /\ content' = m.content
          /\ queue' = m.rest
    /\ writer' = "write"
    /\ UNCHANGED <<termVars, readerVars, log, plock, frameVars, sent, calls, fuel>>

\* The channel's Sender is gone.
SenderDropped == frame = "exit"

\* receiver.recv() returns Err: the channel is empty and its Sender was
\* dropped, and the `while let` loop ends.
WriterDisconnected ==
    /\ writer = "recv"
    /\ queue = <<>>
    /\ SenderDropped
    /\ writer' = "done"
    /\ UNCHANGED <<termVars, readerVars, log, plock, frameVars, queue, sent, content, calls, fuel>>

\* pty.write(&content) returns Ok
WriteOk ==
    /\ writer = "write"
    /\ calls' = Append(calls, [content |-> content, res |-> "ok"])
    /\ writer' = "recv"
    /\ content' = <<>>
    /\ UNCHANGED <<termVars, readerVars, log, plock, frameVars, queue, sent, fuel>>

\* pty.write(&content) fails with EBADF: break, the receiver is dropped.
WriteClosed ==
    /\ writer = "write"
    /\ calls' = Append(calls, [content |-> content, res |-> "closed"])
    /\ writer' = "done"
    /\ content' = <<>>
    /\ queue' = <<>>
    /\ UNCHANGED <<termVars, readerVars, log, plock, frameVars, sent, fuel>>

\* pty.write(&content) fails with any other error: logged, next recv().
WriteError ==
    /\ writer = "write"
    /\ calls' = Append(calls, [content |-> content, res |-> "error"])
    /\ log' = log \cup {"Error on write"}
    /\ writer' = "recv"
    /\ content' = <<>>
    /\ UNCHANGED <<termVars, readerVars, plock, frameVars, queue, sent, fuel>>

\* ---------------------------------------------------------------- specifications
Next ==
    \/ ReadChunk
    \/ ReaderLock
    \/ ReaderByte
    \/ ReaderUnlock
    \/ ReadClosed
    \/ ReadError
    \/ Tick
    \/ WindowClose
    \/ FrameSkip
    \/ FrameLock
    \/ FrameDraw
    \/ FrameCursor
    \/ FrameUnlock
    \/ WriterRecv
    \/ WriterDisconnected
    \/ WriteOk
    \/ WriteClosed
    \/ WriteError

\* The whole program: reader thread, writer thread and event loop.
Spec == Init /\ [][Next]_vars

\* The interpreter alone, fed chunk after chunk by a PTY that never fails.
NextInterp ==
    \/ ReadChunk
    \/ ReaderLock
    \/ ReaderByte
    \/ ReaderUnlock

SpecInterp == InitInterp /\ [][NextInterp]_vars

\* The scheduling of the three threads: a thread that can take its next step
\* takes it; the RwLock hands the read lock to a frame that asks for it again
\* and again; a pty.write that is attempted again and again succeeds.
Fairness ==
    /\ WF_vars(ReaderLock)
    /\ WF_vars(ReaderByte \/ ReaderUnlock)
    /\ SF_vars(FrameLock)
    /\ WF_vars(FrameDraw)
    /\ WF_vars(FrameCursor)
    /\ WF_vars(FrameUnlock)
    /\ WF_vars(WriterRecv)
    /\ WF_vars(WriterDisconnected)
    /\ WF_vars(WriteOk \/ WriteClosed \/ WriteError)
    /\ SF_vars(WriteOk)

\* The bytes pty.read delivers in the behaviours checked for liveness.
MaxLiveBytes == 1

InitLive == InitCommon /\ fuel = <<MaxLiveBytes>>

\* The whole program under fair scheduling.
SpecLive == InitLive /\ [][Next]_vars /\ Fairness

\* The interpreter alone on f32 positions, from the pen (-1.0, -1.0).
MaxScreenF == 5

InitF ==
    /\ pos = Vec(-OneF, -OneF)
    /\ screen = <<>>
    /\ parser = NewParser
    /\ reader = "read"
    /\ log = {}
    /\ plock = "free"
    /\ slock = "free"
    /\ frame = "idle"
    /\ snap = NoSnap
    /\ queue = <<>>
    /\ sent = <<>>
    /\ writer = "recv"
    /\ content = <<>>
    /\ calls = <<>>
    /\ fuel = <<>>

\* One iteration of `for u in buf`, on f32 positions.
ReaderByteF ==
    /\ reader = "proc"
    /\ \E u \in BytesF :
        /\ u # BS => Len(screen) < MaxScreenF
        /\ CanWrite(slock)
        /\ LET r == advance_parserF(pos, screen, u)
           IN /\ pos' = r.pos
              /\ screen' = r.screen
    /\ UNCHANGED <<parser, reader, log, plock, frameVars, queue, sent, writerVars, fuel>>

NextF ==
    \/ ReadChunk
    \/ ReaderLock
    \/ ReaderByteF
    \/ ReaderUnlock

SpecF == InitF /\ [][NextF]_vars

\* ---------------------------------------------------------------- properties
\* The pen is within bounds.
Normalized(p) == p.x >= -One /\ p.x <= One - Half /\ p.y <= One - Scale

GlyphBytes == {c \in Bytes : HasChr(c)}

CsiActions == {ChrK, ChrC, ChrA}

CsiParams == {0, MaxParam}

\* Every (pen, screen) that feeding one more byte hands to update_pos, from
\* the pen p and the screen s.
NormCalls(p, s) ==
    {add_chr_pre(p, s, get_chr_by_id(c)) : c \in GlyphBytes}
    \cup {add_space_pre(p, s), add_space(p, s)}
    \cup {PS(Vec(p.x - Half, p.y), s), backspace_pre(p, s)}
    \cup {PS(csi_pre(p, a, n), s) : a \in CsiActions, n \in CsiParams}

\* The calls of NormCalls in which update_y scrolls.
ScrollCalls(p, s) == {a \in NormCalls(p, s) : update_x(a.pos).y > One - Scale}

\* The calls of NormCalls in which update_x wraps forward from a pen.x of at most 2.
WrapCalls(p, s) == {a \in NormCalls(p, s) : a.pos.x > One - Half /\ a.pos.x <= 2 * One}

\* C1: after every interpreted event the pen is normalized:
\* -1 <= pen.x <= 1 - pitch/2 and pen.y <= 1 - pitch.
C1_PenNormalized == Normalized(pos)

\* C2: normalization is idempotent: on the pen and the screen that any
\* update_pos call of an event returns, a second update_pos changes neither.
C2_Idempotent ==
    \A a \in NormCalls(pos, screen) :
        LET r == update_pos(a.pos, a.screen)
        IN update_pos(r.pos, r.screen) = r

\* C3: from a normalized pen from which print(c) neither wraps nor scrolls,
\* print(c) followed by backspace restores the pen and the ScreenBuffer.
C3_BackspaceUndoesPrint ==
    \A c \in GlyphBytes :
        LET pre == add_chr_pre(pos, screen, get_chr_by_id(c))
            printed == print(pos, screen, c)
        IN (Normalized(pos) /\ Normalized(pre.pos))
           => backspace(printed.pos, printed.screen) = PS(pos, screen)

\* C4 as stated: a pen with pen.x = 1 - p/2 + eps, one wrap sufficing, is
\* normalized to pen.x = -1 + p/2 + eps and pen.y + p.
C4_WrapAsStated ==
    \A a \in NormCalls(pos, screen) :
        LET eps == a.pos.x - (One - Half)
            r == update_pos(a.pos, a.screen)
        IN (eps > 0 /\ update_x(a.pos).x <= One - Half)
           => r.pos.x = -One + Half + eps /\ r.pos.y = a.pos.y + Scale

\* C4 as amended: a pen with pen.x = 1 - p/2 + eps and pen.x <= 2 is wrapped to
\* pen.x = -1 + eps and pen.y + p; update_pos returns that pen unless
\* pen.y + p exceeds 1 - p, and then only pen.y is lowered further, by the scroll.
C4_Wrap ==
    \A a \in WrapCalls(pos, screen) :
        LET eps == a.pos.x - (One - Half)
            r == update_pos(a.pos, a.screen)
        IN /\ update_x(a.pos) = Vec(-One + eps, a.pos.y + Scale)
           /\ r.pos.x = -One + eps
           /\ IF a.pos.y + Scale <= One - Scale
              THEN r.pos.y = a.pos.y + Scale
              ELSE r.pos.y < a.pos.y + Scale

\* A reachable state from which an event wraps the pen onto the next row,
\* without scrolling, while a Drawable is on the screen.
C4_Witness ==
    \E a \in WrapCalls(pos, screen) :
        /\ a.pos.x > One - Half + 1
        /\ a.screen # <<>>
        /\ update_pos(a.pos, a.screen) = PS(Vec(a.pos.x - 2 * One + Half, a.pos.y + Scale), a.screen)

\* C5: when update_y runs with pen.y > 1 - pitch, the pen and every Drawable
\* go down by one and the same dif > 0, exactly the Drawables that end at
\* y <= -1 are removed, and the others keep their order.
C5_Scroll ==
    \A a \in ScrollCalls(pos, screen) :
        LET p1 == update_x(a.pos)
            r == update_y(p1, a.screen)
            dif == p1.y - r.pos.y
            moved == [i \in 1..Len(a.screen) |-> [a.screen[i] EXCEPT !.y = @ - dif]]
            Above(d) == d.y > -One
        IN /\ dif > 0
           /\ r.pos.x = p1.x
           /\ r.screen = SelectSeq(moved, Above)
           /\ \A i \in 1..Len(r.screen) : r.screen[i].y > -One

\* A reachable state from which an event scrolls a screen holding a Drawable
\* that survives the scroll.
C5_Witness ==
    \E a \in ScrollCalls(pos, screen) :
        LET r == update_pos(a.pos, a.screen)
        IN r.screen # <<>> /\ r.screen # a.screen

\* C6: the scroll shift is dif = pitch * ceil(pen.y / (1 - pitch)), a whole
\* positive multiple of the pitch.
C6_ScrollDif ==
    \A a \in ScrollCalls(pos, screen) :
        LET p1 == update_x(a.pos)
            dif == p1.y - update_y(p1, a.screen).pos.y
        IN dif = Scale * Ceil(p1.y, One - Scale) /\ dif % Scale = 0

\* C7: erase-line with parameter 0 or absent puts pen.x at -1 + pitch/2 and
\* leaves pen.y unchanged.
C7_EraseLinePen ==
    LET r == csi_dispatch(pos, screen, ChrK, 0)
    IN r.pos = Vec(-One + Half, pos.y)

\* C8: erase-line never changes the ScreenBuffer.
C8_EraseLineScreen == csi_dispatch(pos, screen, ChrK, 0).screen = screen

\* C9: a frame never reads the pen or the ScreenBuffer between two bytes of a
\* chunk: while it holds the read lock the reader thread is not inside a chunk,
\* and the Drawables and the cursor it has read are those of the one state
\* the interpreter is in.
C9_ChunkAtomic ==
    /\ frame \in {"locked", "drawn", "cursor"} => reader # "proc"
    /\ snap.state = "drawn" => snap.screen = screen
    /\ snap.state = "cursor" => snap.screen = screen /\ snap.pos = pos

\* A frame has read the Drawables and the cursor of a screen a chunk wrote,
\* while the reader thread waits for the lock with the next chunk.
C9_Witness ==
    /\ frame = "cursor"
    /\ reader = "wait"
    /\ snap.screen # <<>>
    /\ snap.pos = pos

\* C10: pty.write is called with the submissions in the order they were
\* submitted: the calls made so far, and the message in the writer's hand,
\* are the first submissions, in order.
C10_Fifo ==
    /\ Len(calls) <= Len(sent)
    /\ \A i \in 1..Len(calls) : calls[i].content = sent[i]
    /\ writer = "write" => Len(calls) < Len(sent) /\ content = sent[Len(calls) + 1]

\* "ls" and then CR were submitted and written, in that order, while a frame
\* was drawing.
C10_Witness ==
    /\ Len(calls) = 2
    /\ calls[1] = [content |-> <<ChrL, ChrS>>, res |-> "ok"]
    /\ calls[2] = [content |-> <<CR>>, res |-> "ok"]
    /\ frame = "drawn"

\* C11: the step in which the reader thread stops logs nothing and leaves the
\* pen and the ScreenBuffer alone, and they stay as they are from then on; a
\* step that logs a read error leaves the pen and the ScreenBuffer alone and
\* the reader thread at its next pty.read().
C11_ReadFailure ==
    [][ /\ (reader # "done" /\ reader' = "done")
            => (reader = "read" /\ log' = log /\ pos' = pos /\ screen' = screen)
        /\ reader = "done" => (reader' = "done" /\ pos' = pos /\ screen' = screen)
        /\ ("Error on read" \in log' \ log)
            => (reader = "read" /\ reader' = "read" /\ pos' = pos /\ screen' = screen)
      ]_vars

\* The reader thread processed a chunk that drew a Drawable, logged a failed
\* read, and then stopped on the closed condition; nothing else was logged.
C11_Witness ==
    /\ reader = "done"
    /\ screen # <<>>
    /\ log = {"Error on read"}

\* The byte streams whose splits are compared, up to MaxStream bytes long.
MaxStream == 3

StreamBytes == {ESC, LBracket, ChrC, ChrA}

Streams == UNION {[1..n -> StreamBytes] : n \in 2..MaxStream}

\* C12: between two chunks, a byte stream read as two consecutive chunks,
\* whatever the split, leaves the pen and the ScreenBuffer that the same
\* stream leaves when read as one chunk.
C12_SplitInvariant ==
    reader = "read" =>
        \A s \in Streams : \A k \in 1..(Len(s) - 1) :
            read_chunk(read_chunk(PS(pos, screen), SubSeq(s, 1, k)),
                       SubSeq(s, k + 1, Len(s)))
            = read_chunk(PS(pos, screen), s)

\* The x of a pen is within bounds.
InBoundsX(x) == x >= -One /\ x <= One - Half

\* C13: print(c) for a glyph with bearing (bx, by) and width w, from the pen
\* (x, y), hands to normalization the ScreenBuffer with one Glyph Drawable at
\* (x + bx, y - by) appended and the pen (x + bx + w, y); when x + bx + w is
\* within bounds that is the result of print.  Without a glyph print changes
\* nothing.
C13_Print ==
    \A c \in Bytes :
        LET r == print(pos, screen, c)
        IN IF HasChr(c)
           THEN LET chr == get_chr_by_id(c)
                    pre == add_chr_pre(pos, screen, chr)
                    drawn == screen \o <<[item |-> c, x |-> pos.x + chr.bx,
                                          y |-> pos.y - chr.by]>>
                IN /\ pre.screen = drawn
                   /\ pre.pos = Vec(pos.x + chr.bx + chr.w, pos.y)
                   /\ InBoundsX(pos.x + chr.bx + chr.w)
                      => r = PS(Vec(pos.x + chr.bx + chr.w, pos.y), drawn)
           ELSE r = PS(pos, screen)

\* The Drawables the next byte can append, from the pen p and the screen s.
Inserted(p, s) ==
    LET Last(q) == q[Len(q)]
    IN {Last(add_chr_pre(p, s, get_chr_by_id(c)).screen) : c \in GlyphBytes}
       \cup {Last(add_space_pre(p, s).screen)}

\* C14: a Drawable is within bounds at the moment it is appended:
\* -1 <= x <= 1 - pitch/2 and y <= 1 - pitch.
C14_InsertInBounds ==
    \A d \in Inserted(pos, screen) : Normalized(Vec(d.x, d.y))

\* The final bytes of the model's control sequences other than erase-line
\* and cursor-forward.
OtherActions == {ChrA, ChrI, LBracket}

\* C15: a CSI dispatch with a final byte other than 'K' and 'C', or with 'K'
\* and a non-zero parameter, changes neither the pen nor the ScreenBuffer.
C15_OtherCsiNoOp ==
    /\ \A a \in OtherActions : \A n \in CsiParams :
           csi_dispatch(pos, screen, a, n) = PS(pos, screen)
    /\ csi_dispatch(pos, screen, ChrK, MaxParam) = PS(pos, screen)

\* C16: a loop that has stopped stopped because its PTY operation reported the
\* closed condition; for the writer thread, whose pty.write calls are
\* recorded: when it has stopped, its last pty.write reported closed.
C16_StopOnlyOnClosure ==
    writer = "done" => (calls # <<>> /\ calls[Len(calls)].res = "closed")

\* Submission i was handed to a pty.write that returned Ok.
Written(i) ==
    /\ Len(sent) >= i
    /\ \E j \in 1..Len(calls) : calls[j] = [content |-> sent[i], res |-> "ok"]

\* A pty.write reported the closed condition.
PtyClosed == \E j \in 1..Len(calls) : calls[j].res = "closed"

\* C17: every byte sequence submitted to the queue is eventually written
\* successfully to the PTY, unless the PTY is closed.
C17_NoInputLost ==
    \A i \in 1..MaxTicks : [](Len(sent) >= i => <>(Written(i) \/ PtyClosed))

ScrollOf(p) ==
    LET q == update_x(p)
    IN IF q.y > One - Scale THEN ScrollDif(q.y) ELSE 0

\* What the next byte does to the ScreenBuffer, from the pen p and the screen
\* s: the screen once any new Drawable is appended, the screen the event
\* leaves, the scroll shift the event applies to the pen, and how many
\* Drawables a backspace may remove.
Events(p, s) ==
    {[before |-> add_chr_pre(p, s, get_chr_by_id(c)).screen,
      after |-> print(p, s, c).screen,
      shift |-> ScrollOf(add_chr_pre(p, s, get_chr_by_id(c)).pos),
      deleted |-> 0] : c \in GlyphBytes}
    \cup {[before |-> add_space_pre(p, s).screen,
           after |-> space(p, s).screen,
           shift |-> ScrollOf(add_space_pre(p, s).pos) + ScrollOf(add_space(p, s).pos),
           deleted |-> 0]}
    \cup {[before |-> s,
           after |-> backspace(p, s).screen,
           shift |-> ScrollOf(backspace_pre(p, s).pos),
           deleted |-> 1]}
    \cup {[before |-> s,
           after |-> csi_dispatch(p, s, a, n).screen,
           shift |-> ScrollOf(csi_pre(p, a, n)),
           deleted |-> 0] : a \in CsiActions, n \in CsiParams}

\* C20: every event leaves the Drawables that survive it in their order,
\* with their x, and with their y lowered by the scroll shift the same event
\* applies to the pen; the Drawables that do not survive are those a shift
\* takes to y <= -1 and, for a backspace, at most one more.
C20_OnlyScrollMoves ==
    \A e \in Events(pos, screen) :
        LET moved == [i \in 1..Len(e.before) |-> [e.before[i] EXCEPT !.y = @ - e.shift]]
            Above(d) == d.y > -One
            kept == IF e.shift = 0 THEN e.before ELSE SelectSeq(moved, Above)
        IN \/ e.after = kept
           \/ /\ e.deleted = 1
              /\ \E i \in 1..Len(kept) : e.after = RemoveAt(kept, i)

\* C21: the byte 0x20 from the pen (x, y) hands to normalization the
\* ScreenBuffer with one Blank Drawable at (x, y) appended and the pen
\* (x + pitch/2, y); when x + pitch/2 is within bounds that is the result of
\* the byte; and the decoder is as it was before the byte.
C21_Space ==
    LET pre == add_space_pre(pos, screen)
        r == advance_parser(parser, pos, screen, SP)
        drawn == screen \o <<[item |-> SP, x |-> pos.x, y |-> pos.y]>>
    IN /\ pre.screen = drawn
       /\ pre.pos = Vec(pos.x + Half, pos.y)
       /\ r.parser = parser
       /\ InBoundsX(pos.x + Half) => r.ps = PS(Vec(pos.x + Half, pos.y), drawn)

\* The parameters of the cursor-forward sequences compared: absent or 0, 1,
\* and the largest the model feeds.
ForwardParams == {0, 1, MaxParam}

\* C22: cursor-forward with parameter n hands to normalization the pen
\* advanced by n * pitch/2 (n = 1 when the parameter is absent or 0), appends
\* no Drawable and, from a normalized pen, leaves a normalized pen.
C22_CursorForward ==
    \A n \in ForwardParams :
        LET steps == IF n = 0 THEN 1 ELSE n
            r == csi_dispatch(pos, screen, ChrC, n)
        IN /\ csi_pre(pos, ChrC, n) = Vec(pos.x + steps * Half, pos.y)
           /\ Len(r.screen) <= Len(screen)
           /\ Normalized(pos) => Normalized(r.pos)

\* What input.text() can hold in the ticks compared.
TypedTexts == {<<>>, <<Char(ChrL), Char(ChrS)>>, <<Back>>, <<Char(ChrA), Back, Char(ChrI)>>}

\* The submission C23 describes: the typed characters in order, the Back key
\* as byte 8, then at most one of CR, TAB and '^', Return before Tab before
\* either Ctrl key.
Submission(typed, ret, tab, lctrl, rctrl) ==
    [i \in 1..Len(typed) |-> IF typed[i] = Back THEN BS ELSE typed[i].c]
    \o (IF ret THEN <<CR>>
        ELSE IF tab THEN <<TAB>>
        ELSE IF lctrl \/ rctrl THEN <<Caret>>
        ELSE <<>>)

\* C23: update_pty builds the submission described; a polling tick appends
\* exactly one such submission to the queue, and nothing else ever appends to
\* it; a tick whose channel has lost its receiver ends in an error, with
\* nothing enqueued and no frame drawn.
C23_Tick ==
    /\ [](\A typed \in TypedTexts : \A ret, tab, lctrl, rctrl \in BOOLEAN :
            update_pty(typed, ret, tab, lctrl, rctrl)
            = Submission(typed, ret, tab, lctrl, rctrl))
    /\ [][ /\ (frame = "idle" /\ frame' = "tick")
              => /\ writer # "done"
                 /\ \E in \in Inputs :
                       LET text == Submission(in.typed, in.ret, in.tab, in.lctrl, in.rctrl)
                       IN sent' = Append(sent, text) /\ queue' = Append(queue, text)
           /\ (frame = "idle" /\ frame' = "panic")
              => (writer = "done" /\ sent' = sent /\ queue' = queue)
           /\ sent' # sent => (frame = "idle" /\ frame' = "tick")
         ]_vars

\* A first tick submitted Back and Tab (with a Ctrl key down) and the PTY
\* reported closed on writing them; the next tick failed on the channel.
C23_Witness ==
    /\ frame = "panic"
    /\ sent = <<(<<BS, TAB>>)>>
    /\ calls = <<[content |-> <<BS, TAB>>, res |-> "closed"]>>

\* No Drawable of the screen s is on the row of the pen p at x >= p.x.
RowClear(p, s) == \A i \in 1..Len(s) : ~(s[i].y = p.y /\ s[i].x >= p.x)

\* The pen is within bounds, on f32 positions.
NormalizedF(p) == p.x >= -OneF /\ p.x <= OneF - HalfF /\ p.y <= OneF - ScaleF

\* C24: from a normalized pen from which a space neither wraps nor scrolls,
\* with no Drawable on the pen's row at x >= pen.x, the bytes 0x20 and 0x08
\* restore the pen and the ScreenBuffer.
C24_SpaceBackspace ==
    (/\ NormalizedF(pos)
     /\ NormalizedF(Vec(F32(pos.x + HalfF), pos.y))
     /\ RowClear(pos, screen))
    => LET s1 == advance_parserF(pos, screen, SP)
           s2 == advance_parserF(s1.pos, s1.screen, BS)
       IN s2 = PS(pos, screen)

====
